---- MODULE Spec2Model ----
(***************************************************************************)
(* A model of yad_semver: SemVer::from_str, Display::fmt, the hand-written *)
(* PartialOrd (ge, gt, le, lt, partial_cmp) and the derived PartialEq and  *)
(* Ord.                                                                    *)
(*                                                                         *)
(* A string is a sequence of characters; a character is a one-character    *)
(* TLA+ string, or the token "U+xxxx" for a character that is not          *)
(* printable ASCII.  A u128 is the sequence of its decimal digits without  *)
(* leading zeros (<<0>> for zero), so that values up to and beyond 2^128   *)
(* are exact.                                                              *)
(***************************************************************************)
EXTENDS Integers, Sequences, FiniteSets, TLC

VARIABLES text_a, text_b, ver_a, ver_b, shown, call

vars == <<text_a, text_b, ver_a, ver_b, shown, call>>

\* "Not called yet".
Null == [null |-> TRUE]

------------------------------------------------------------------------------
(* Characters *)

\* The characters of the model, a finite part of Unicode: the ASCII digits and
\* letters, the punctuation the grammar uses, three characters outside the
\* grammar's alphabet (underscore, space, line feed) and one decimal digit that
\* is not ASCII (ARABIC-INDIC DIGIT THREE, general category Nd).
Digits == <<"0", "1", "2", "3", "4", "5", "6", "7", "8", "9">>

Upper ==
  <<"A", "B", "C", "D", "E", "F", "G", "H", "I", "J", "K", "L", "M",
    "N", "O", "P", "Q", "R", "S", "T", "U", "V", "W", "X", "Y", "Z">>

Lower ==
  <<"a", "b", "c", "d", "e", "f", "g", "h", "i", "j", "k", "l", "m",
    "n", "o", "p", "q", "r", "s", "t", "u", "v", "w", "x", "y", "z">>

LF == "U+000A"
ArabicThree == "U+0663"

Range(f) == {f[i] : i \in DOMAIN f}

Chars ==
  Range(Digits) \cup Range(Upper) \cup Range(Lower)
    \cup {"+", "-", ".", "_", " ", LF, ArabicThree}

IndexIn(f, c) == CHOOSE i \in DOMAIN f : f[i] = c

CodePointOf ==
  [c \in Chars |->
     IF c \in Range(Digits) THEN 47 + IndexIn(Digits, c)
     ELSE IF c \in Range(Upper) THEN 64 + IndexIn(Upper, c)
     ELSE IF c \in Range(Lower) THEN 96 + IndexIn(Lower, c)
     ELSE IF c = "+" THEN 43
     ELSE IF c = "-" THEN 45
     ELSE IF c = "." THEN 46
     ELSE IF c = "_" THEN 95
     ELSE IF c = " " THEN 32
     ELSE IF c = LF THEN 10
     ELSE 1635]

CodePoint(c) == CodePointOf[c]

\* The UTF-8 encoding of a character (one or two bytes cover the model's characters).
Utf8(c) ==
  IF CodePoint(c) < 128 THEN <<CodePoint(c)>>
  ELSE <<192 + (CodePoint(c) \div 64), 128 + (CodePoint(c) % 64)>>

RECURSIVE Bytes(_)
Bytes(s) == IF s = <<>> THEN <<>> ELSE Utf8(Head(s)) \o Bytes(Tail(s))

\* [0-9]
IsAsciiDigit(c) == CodePoint(c) \in 48..57

\* \d of the regex crate: Unicode-aware, any character of general category Nd.
IsDigitClass(c) == IsAsciiDigit(c) \/ c = ArabicThree

\* [1-9]
IsNonZeroDigit(c) == CodePoint(c) \in 49..57

\* [a-zA-Z-]
IsLetterOrHyphen(c) ==
  CodePoint(c) \in 97..122 \/ CodePoint(c) \in 65..90 \/ c = "-"

\* [0-9a-zA-Z-]
IsIdChar(c) == IsAsciiDigit(c) \/ IsLetterOrHyphen(c)

------------------------------------------------------------------------------
(* Strings *)

Min2(m, n) == IF m < n THEN m ELSE n

\* Lexicographic "less" on sequences of naturals.
RECURSIVE SeqLess(_, _)
SeqLess(x, y) ==
  IF y = <<>> THEN FALSE
  ELSE IF x = <<>> THEN TRUE
  ELSE IF Head(x) # Head(y) THEN Head(x) < Head(y)
  ELSE SeqLess(Tail(x), Tail(y))

\* str's Ord: byte-wise lexicographic comparison.  StrGt(x, y) is x > y.
StrGt(x, y) == SeqLess(Bytes(y), Bytes(x))

\* str::split("."): the pieces between the separators, empty pieces kept.
RECURSIVE SplitFrom(_, _, _)
SplitFrom(s, from, i) ==
  IF i > Len(s) THEN <<SubSeq(s, from, Len(s))>>
  ELSE IF s[i] = "." THEN <<SubSeq(s, from, i - 1)>> \o SplitFrom(s, i + 1, i + 1)
  ELSE SplitFrom(s, from, i + 1)

Split(s) == SplitFrom(s, 1, 1)

------------------------------------------------------------------------------
(* u128 *)

\* u128::MAX = 2^128 - 1 = 340282366920938463463374607431768211455.
U128Max ==
  <<3,4,0,2,8,2,3,6,6,9,2,0,9,3,8,4,6,3,4,6,3,3,7,4,6,0,7,4,3,1,7,6,8,2,1,1,4,5,5>>

RECURSIVE StripZeros(_)
StripZeros(d) ==
  IF Len(d) > 1 /\ Head(d) = 0 THEN StripZeros(Tail(d)) ELSE d

\* x < y for two digit sequences without leading zeros.
NumLess(x, y) == Len(x) < Len(y) \/ (Len(x) = Len(y) /\ SeqLess(x, y))

\* x > y on u128.
U128Gt(x, y) == NumLess(y, x)

\* str::parse::<u128>(): an optional leading '+', then ASCII digits only;
\* empty input, a lone sign, any other character and overflow are errors.
ParseU128(src) ==
  LET body == IF Len(src) > 1 /\ src[1] = "+" THEN Tail(src) ELSE src
      val  == StripZeros([i \in 1..Len(body) |-> CodePoint(body[i]) - 48])
  IN  IF src = <<>> THEN [ok |-> FALSE]
      ELSE IF \E i \in 1..Len(body) : ~IsAsciiDigit(body[i]) THEN [ok |-> FALSE]
      ELSE IF NumLess(U128Max, val) THEN [ok |-> FALSE]
      ELSE [ok |-> TRUE, val |-> val]

\* Display for u128: decimal, no leading zeros.
FormatU128(n) == [i \in 1..Len(n) |-> Digits[n[i] + 1]]

------------------------------------------------------------------------------
(* The version type *)

None == [some |-> FALSE]
Some(x) == [some |-> TRUE, val |-> x]

Ok(v) == [ok |-> TRUE, val |-> v]
Err(s) == [ok |-> FALSE, err |-> [version |-> s]]

\* struct SemVer: three u128 and two Option<String>.
SemVer(major, minor, patch, pre_release, build_meta) ==
  [major |-> major, minor |-> minor, patch |-> patch,
   pre_release |-> pre_release, build_meta |-> build_meta]

------------------------------------------------------------------------------
(* Display *)

\* Fmt with the build metadata left out when a pre-release is present.
FmtDropsBuildMeta(self) ==
  LET triple == FormatU128(self.major) \o <<".">> \o FormatU128(self.minor)
                  \o <<".">> \o FormatU128(self.patch)
  IN  IF self.pre_release.some
        THEN triple \o <<"-">> \o self.pre_release.val
      ELSE IF self.build_meta.some
        THEN triple \o <<"+">> \o self.build_meta.val
      ELSE triple

\* impl Display for SemVer: one format string per combination of the options.
Fmt(self) ==
  LET triple == FormatU128(self.major) \o <<".">> \o FormatU128(self.minor)
                  \o <<".">> \o FormatU128(self.patch)
  IN  IF self.pre_release.some /\ self.build_meta.some
        THEN triple \o <<"-">> \o self.pre_release.val \o <<"+">> \o self.build_meta.val
      ELSE IF self.pre_release.some
        THEN triple \o <<"-">> \o self.pre_release.val
      ELSE IF self.build_meta.some
        THEN triple \o <<"+">> \o self.build_meta.val
      ELSE triple

------------------------------------------------------------------------------
(* FromStr: the regular expression RE and the conversion of its captures *)

\* 0|[1-9]\d*
IsNumeric(t) ==
  \/ t = <<"0">>
  \/ /\ Len(t) >= 1
     /\ IsNonZeroDigit(t[1])
     /\ \A i \in 2..Len(t) : IsDigitClass(t[i])

\* \d*[a-zA-Z-][0-9a-zA-Z-]*
IsAlphanumeric(t) ==
  \E p \in 1..Len(t) :
    /\ \A i \in 1..(p - 1) : IsDigitClass(t[i])
    /\ IsLetterOrHyphen(t[p])
    /\ \A i \in (p + 1)..Len(t) : IsIdChar(t[i])

\* (?:0|[1-9]\d*|\d*[a-zA-Z-][0-9a-zA-Z-]*)
IsPreId(t) == IsNumeric(t) \/ IsAlphanumeric(t)

\* [0-9a-zA-Z-]+
IsBuildId(t) == Len(t) >= 1 /\ \A i \in 1..Len(t) : IsIdChar(t[i])

\* preId(?:\.preId)* : no identifier holds a '.', so the pieces are those of a split.
IsPreRelease(t) == \A i \in DOMAIN Split(t) : IsPreId(Split(t)[i])

\* bId(?:\.bId)*
IsBuildMeta(t) == \A i \in DOMAIN Split(t) : IsBuildId(Split(t)[i])

\* The two optional groups and the closing anchor, from position r of s on.
RE_Optional(s, r) ==
  LET n == Len(s)
  IN  (IF r = n + 1
         THEN {[prerelease |-> None, buildmetadata |-> None]}
         ELSE {})
      \cup
      (IF r <= n /\ s[r] = "-" /\ IsPreRelease(SubSeq(s, r + 1, n))
         THEN {[prerelease |-> Some(SubSeq(s, r + 1, n)), buildmetadata |-> None]}
         ELSE {})
      \cup
      {[prerelease |-> Some(SubSeq(s, r + 1, p - 1)),
        buildmetadata |-> Some(SubSeq(s, p + 1, n))] :
         p \in {q \in (r + 1)..n :
                  /\ s[r] = "-"
                  /\ s[q] = "+"
                  /\ IsPreRelease(SubSeq(s, r + 1, q - 1))
                  /\ IsBuildMeta(SubSeq(s, q + 1, n))}}
      \cup
      (IF r <= n /\ s[r] = "+" /\ IsBuildMeta(SubSeq(s, r + 1, n))
         THEN {[prerelease |-> None, buildmetadata |-> Some(SubSeq(s, r + 1, n))]}
         ELSE {})

\* RE.captures(s): the ways the anchored expression matches the whole of s
\* (d1, d2: the two dots of the triple; e: the last character of patch).
RE_Captures(s) ==
  LET n == Len(s)
  IN  UNION {
        UNION {
          UNION {
            {[major |-> SubSeq(s, 1, d1 - 1),
              minor |-> SubSeq(s, d1 + 1, d2 - 1),
              patch |-> SubSeq(s, d2 + 1, e),
              prerelease |-> o.prerelease,
              buildmetadata |-> o.buildmetadata] : o \in RE_Optional(s, e + 1)}
            : e \in {x \in (d2 + 1)..n : IsNumeric(SubSeq(s, d2 + 1, x))}}
          : d2 \in {x \in (d1 + 1)..n :
                      s[x] = "." /\ IsNumeric(SubSeq(s, d1 + 1, x - 1))}}
        : d1 \in {x \in 1..n : s[x] = "." /\ IsNumeric(SubSeq(s, 1, x - 1))}}

\* impl FromStr for SemVer.
FromStr(s) ==
  LET matches == RE_Captures(s)
      captures == CHOOSE c \in matches : TRUE
      major == ParseU128(captures.major)
      minor == ParseU128(captures.minor)
      patch == ParseU128(captures.patch)
  IN  IF matches = {} THEN Err(s)
      ELSE IF ~major.ok THEN Err(s)
      ELSE IF ~minor.ok THEN Err(s)
      ELSE IF ~patch.ok THEN Err(s)
      ELSE Ok(SemVer(major.val, minor.val, patch.val,
                     captures.prerelease, captures.buildmetadata))

------------------------------------------------------------------------------
(* PartialEq, PartialOrd, Ord *)

\* #[derive(PartialEq)]: all five fields, build_meta included.
Eq(self, other) ==
  /\ self.major = other.major
  /\ self.minor = other.minor
  /\ self.patch = other.patch
  /\ self.pre_release = other.pre_release
  /\ self.build_meta = other.build_meta

\* GeIdentifiers with every pair of identifiers compared as strings.
RECURSIVE GeIdentifiersAsStrings(_, _, _)
GeIdentifiersAsStrings(ours, theirs, i) ==
  IF i > Min2(Len(ours), Len(theirs)) THEN Len(ours) > Len(theirs)
  ELSE IF ours[i] = theirs[i] THEN GeIdentifiersAsStrings(ours, theirs, i + 1)
  ELSE StrGt(ours[i], theirs[i])

\* The loop of ge over the two identifier lists, from index i (1-based) on,
\* and the length comparison that follows it.
RECURSIVE GeIdentifiers(_, _, _)
GeIdentifiers(ours, theirs, i) ==
  IF i > Min2(Len(ours), Len(theirs)) THEN Len(ours) > Len(theirs)
  ELSE IF ours[i] = theirs[i] THEN GeIdentifiers(ours, theirs, i + 1)
  ELSE LET ours_num == ParseU128(ours[i])
           theirs_num == ParseU128(theirs[i])
       IN  IF ours_num.ok /\ theirs_num.ok THEN U128Gt(ours_num.val, theirs_num.val)
           ELSE IF ours_num.ok THEN FALSE
           ELSE IF theirs_num.ok THEN TRUE
           ELSE StrGt(ours[i], theirs[i])

\* PartialOrd::ge.
Ge(self, other) ==
  IF \/ U128Gt(self.major, other.major)
     \/ U128Gt(self.minor, other.minor)
     \/ U128Gt(self.patch, other.patch)
     \/ (~self.pre_release.some /\ other.pre_release.some)
    THEN TRUE
  ELSE IF self.pre_release.some /\ other.pre_release.some
    THEN GeIdentifiers(Split(self.pre_release.val), Split(other.pre_release.val), 1)
  ELSE IF ~self.pre_release.some /\ other.pre_release.some
    THEN TRUE
  ELSE FALSE

\* PartialOrd::gt.
Gt(self, other) == Eq(self, other) /\ Ge(self, other)

\* PartialOrd::le.
Le(self, other) == Gt(other, self)

\* PartialOrd::lt.
Lt(self, other) == Ge(other, self)

\* PartialOrd::partial_cmp (always Some).
PartialCmp(self, other) ==
  IF Eq(self, other) THEN "Equal"
  ELSE IF Lt(self, other) THEN "Less"
  ELSE "Greater"

\* Ord for u128.
CmpU128(x, y) ==
  IF x = y THEN "Equal" ELSE IF NumLess(x, y) THEN "Less" ELSE "Greater"

\* Ord for Option<String>: None is less than Some; two Some compare as strings.
CmpOption(x, y) ==
  IF ~x.some /\ ~y.some THEN "Equal"
  ELSE IF ~x.some THEN "Less"
  ELSE IF ~y.some THEN "Greater"
  ELSE IF x.val = y.val THEN "Equal"
  ELSE IF StrGt(y.val, x.val) THEN "Less"
  ELSE "Greater"

\* #[derive(Ord)]: Ord::cmp, the fields in declaration order, the first that
\* differs decides.
Cmp(self, other) ==
  IF CmpU128(self.major, other.major) # "Equal" THEN CmpU128(self.major, other.major)
  ELSE IF CmpU128(self.minor, other.minor) # "Equal" THEN CmpU128(self.minor, other.minor)
  ELSE IF CmpU128(self.patch, other.patch) # "Equal" THEN CmpU128(self.patch, other.patch)
  ELSE IF CmpOption(self.pre_release, other.pre_release) # "Equal"
    THEN CmpOption(self.pre_release, other.pre_release)
  ELSE CmpOption(self.build_meta, other.build_meta)

\* Ord::max as max_by(self, other, Ord::cmp): the second argument unless the
\* first compares Greater.
MaxByCmp(v1, v2) == IF Cmp(v1, v2) = "Greater" THEN v1 ELSE v2

\* Ord::max as `if other < self { self } else { other }`.
MaxByLt(v1, v2) == IF Lt(v2, v1) THEN v1 ELSE v2

------------------------------------------------------------------------------
(* Inputs *)

\* const VALID_STRINGS of the tests.
VALID_STRINGS ==
  <<
    \* 0.0.4
    <<"0", ".", "0", ".", "4">>,
    \* 1.2.3
    <<"1", ".", "2", ".", "3">>,
    \* 10.20.30
    <<"1", "0", ".", "2", "0", ".", "3", "0">>,
    \* 1.1.2-prerelease+meta
    <<"1", ".", "1", ".", "2", "-", "p", "r", "e", "r", "e", "l", "e", "a", "s", "e", "+",
      "m", "e", "t", "a">>,
    \* 1.1.2+meta
    <<"1", ".", "1", ".", "2", "+", "m", "e", "t", "a">>,
    \* 1.1.2+meta-valid
    <<"1", ".", "1", ".", "2", "+", "m", "e", "t", "a", "-", "v", "a", "l", "i", "d">>,
    \* 1.0.0-alpha
    <<"1", ".", "0", ".", "0", "-", "a", "l", "p", "h", "a">>,
    \* 1.0.0-beta
    <<"1", ".", "0", ".", "0", "-", "b", "e", "t", "a">>,
    \* 1.0.0-alpha.beta
    <<"1", ".", "0", ".", "0", "-", "a", "l", "p", "h", "a", ".", "b", "e", "t", "a">>,
    \* 1.0.0-alpha.beta.1
    <<"1", ".", "0", ".", "0", "-", "a", "l", "p", "h", "a", ".", "b", "e", "t", "a", ".",
      "1">>,
    \* 1.0.0-alpha.1
    <<"1", ".", "0", ".", "0", "-", "a", "l", "p", "h", "a", ".", "1">>,
    \* 1.0.0-alpha0.valid
    <<"1", ".", "0", ".", "0", "-", "a", "l", "p", "h", "a", "0", ".", "v", "a", "l", "i",
      "d">>,
    \* 1.0.0-alpha.0valid
    <<"1", ".", "0", ".", "0", "-", "a", "l", "p", "h", "a", ".", "0", "v", "a", "l", "i",
      "d">>,
    \* 1.0.0-alpha-a.b-c-somethinglong+build.1-aef.1-its-okay
    <<"1", ".", "0", ".", "0", "-", "a", "l", "p", "h", "a", "-", "a", ".", "b", "-", "c",
      "-", "s", "o", "m", "e", "t", "h", "i", "n", "g", "l", "o", "n", "g", "+", "b", "u",
      "i", "l", "d", ".", "1", "-", "a", "e", "f", ".", "1", "-", "i", "t", "s", "-", "o",
      "k", "a", "y">>,
    \* 1.0.0-rc.1+build.1
    <<"1", ".", "0", ".", "0", "-", "r", "c", ".", "1", "+", "b", "u", "i", "l", "d", ".",
      "1">>,
    \* 2.0.0-rc.1+build.123
    <<"2", ".", "0", ".", "0", "-", "r", "c", ".", "1", "+", "b", "u", "i", "l", "d", ".",
      "1", "2", "3">>,
    \* 1.2.3-beta
    <<"1", ".", "2", ".", "3", "-", "b", "e", "t", "a">>,
    \* 10.2.3-DEV-SNAPSHOT
    <<"1", "0", ".", "2", ".", "3", "-", "D", "E", "V", "-", "S", "N", "A", "P", "S", "H",
      "O", "T">>,
    \* 1.2.3-SNAPSHOT-123
    <<"1", ".", "2", ".", "3", "-", "S", "N", "A", "P", "S", "H", "O", "T", "-", "1", "2",
      "3">>,
    \* 1.0.0
    <<"1", ".", "0", ".", "0">>,
    \* 2.0.0
    <<"2", ".", "0", ".", "0">>,
    \* 1.1.7
    <<"1", ".", "1", ".", "7">>,
    \* 2.0.0+build.1848
    <<"2", ".", "0", ".", "0", "+", "b", "u", "i", "l", "d", ".", "1", "8", "4", "8">>,
    \* 2.0.1-alpha.1227
    <<"2", ".", "0", ".", "1", "-", "a", "l", "p", "h", "a", ".", "1", "2", "2", "7">>,
    \* 1.0.0-alpha+beta
    <<"1", ".", "0", ".", "0", "-", "a", "l", "p", "h", "a", "+", "b", "e", "t", "a">>,
    \* 1.2.3----RC-SNAPSHOT.12.9.1--.12+788
    <<"1", ".", "2", ".", "3", "-", "-", "-", "-", "R", "C", "-", "S", "N", "A", "P", "S",
      "H", "O", "T", ".", "1", "2", ".", "9", ".", "1", "-", "-", ".", "1", "2", "+", "7",
      "8", "8">>,
    \* 1.2.3----R-S.12.9.1--.12+meta
    <<"1", ".", "2", ".", "3", "-", "-", "-", "-", "R", "-", "S", ".", "1", "2", ".", "9",
      ".", "1", "-", "-", ".", "1", "2", "+", "m", "e", "t", "a">>,
    \* 1.2.3----RC-SNAPSHOT.12.9.1--.12
    <<"1", ".", "2", ".", "3", "-", "-", "-", "-", "R", "C", "-", "S", "N", "A", "P", "S",
      "H", "O", "T", ".", "1", "2", ".", "9", ".", "1", "-", "-", ".", "1", "2">>,
    \* 1.0.0+0.build.1-rc.10000aaa-kk-0.1
    <<"1", ".", "0", ".", "0", "+", "0", ".", "b", "u", "i", "l", "d", ".", "1", "-", "r",
      "c", ".", "1", "0", "0", "0", "0", "a", "a", "a", "-", "k", "k", "-", "0", ".", "1">>,
    \* 99999999999999999999999.999999999999999999.99999999999999999
    <<"9", "9", "9", "9", "9", "9", "9", "9", "9", "9", "9", "9", "9", "9", "9", "9", "9",
      "9", "9", "9", "9", "9", "9", ".", "9", "9", "9", "9", "9", "9", "9", "9", "9", "9",
      "9", "9", "9", "9", "9", "9", "9", "9", ".", "9", "9", "9", "9", "9", "9", "9", "9",
      "9", "9", "9", "9", "9", "9", "9", "9", "9">>,
    \* 1.0.0-0A.is.legal
    <<"1", ".", "0", ".", "0", "-", "0", "A", ".", "i", "s", ".", "l", "e", "g", "a", "l">>
  >>

\* const INVALID_STRINGS of the tests.
INVALID_STRINGS ==
  <<
    \* 1
    <<"1">>,
    \* 1.2
    <<"1", ".", "2">>,
    \* 1.2.3-0123
    <<"1", ".", "2", ".", "3", "-", "0", "1", "2", "3">>,
    \* 1.2.3-0123.0123
    <<"1", ".", "2", ".", "3", "-", "0", "1", "2", "3", ".", "0", "1", "2", "3">>,
    \* 1.1.2+.123
    <<"1", ".", "1", ".", "2", "+", ".", "1", "2", "3">>,
    \* +invalid
    <<"+", "i", "n", "v", "a", "l", "i", "d">>,
    \* -invalid
    <<"-", "i", "n", "v", "a", "l", "i", "d">>,
    \* -invalid+invalid
    <<"-", "i", "n", "v", "a", "l", "i", "d", "+", "i", "n", "v", "a", "l", "i", "d">>,
    \* -invalid.01
    <<"-", "i", "n", "v", "a", "l", "i", "d", ".", "0", "1">>,
    \* alpha
    <<"a", "l", "p", "h", "a">>,
    \* alpha.beta
    <<"a", "l", "p", "h", "a", ".", "b", "e", "t", "a">>,
    \* alpha.beta.1
    <<"a", "l", "p", "h", "a", ".", "b", "e", "t", "a", ".", "1">>,
    \* alpha.1
    <<"a", "l", "p", "h", "a", ".", "1">>,
    \* alpha+beta
    <<"a", "l", "p", "h", "a", "+", "b", "e", "t", "a">>,
    \* alpha_beta
    <<"a", "l", "p", "h", "a", "_", "b", "e", "t", "a">>,
    \* alpha.
    <<"a", "l", "p", "h", "a", ".">>,
    \* alpha..
    <<"a", "l", "p", "h", "a", ".", ".">>,
    \* beta
    <<"b", "e", "t", "a">>,
    \* 1.0.0-alpha_beta
    <<"1", ".", "0", ".", "0", "-", "a", "l", "p", "h", "a", "_", "b", "e", "t", "a">>,
    \* -alpha.
    <<"-", "a", "l", "p", "h", "a", ".">>,
    \* 1.0.0-alpha..
    <<"1", ".", "0", ".", "0", "-", "a", "l", "p", "h", "a", ".", ".">>,
    \* 1.0.0-alpha..1
    <<"1", ".", "0", ".", "0", "-", "a", "l", "p", "h", "a", ".", ".", "1">>,
    \* 1.0.0-alpha...1
    <<"1", ".", "0", ".", "0", "-", "a", "l", "p", "h", "a", ".", ".", ".", "1">>,
    \* 1.0.0-alpha....1
    <<"1", ".", "0", ".", "0", "-", "a", "l", "p", "h", "a", ".", ".", ".", ".", "1">>,
    \* 1.0.0-alpha.....1
    <<"1", ".", "0", ".", "0", "-", "a", "l", "p", "h", "a", ".", ".", ".", ".", ".", "1">>,
    \* 1.0.0-alpha......1
    <<"1", ".", "0", ".", "0", "-", "a", "l", "p", "h", "a", ".", ".", ".", ".", ".", ".",
      "1">>,
    \* 1.0.0-alpha.......1
    <<"1", ".", "0", ".", "0", "-", "a", "l", "p", "h", "a", ".", ".", ".", ".", ".", ".",
      ".", "1">>,
    \* 01.1.1
    <<"0", "1", ".", "1", ".", "1">>,
    \* 1.01.1
    <<"1", ".", "0", "1", ".", "1">>,
    \* 1.1.01
    <<"1", ".", "1", ".", "0", "1">>,
    \* 1.2
    <<"1", ".", "2">>,
    \* 1.2.3.DEV
    <<"1", ".", "2", ".", "3", ".", "D", "E", "V">>,
    \* 1.2-SNAPSHOT
    <<"1", ".", "2", "-", "S", "N", "A", "P", "S", "H", "O", "T">>,
    \* 1.2.31.2.3----RC-SNAPSHOT.12.09.1--..12+788
    <<"1", ".", "2", ".", "3", "1", ".", "2", ".", "3", "-", "-", "-", "-", "R", "C", "-",
      "S", "N", "A", "P", "S", "H", "O", "T", ".", "1", "2", ".", "0", "9", ".", "1", "-",
      "-", ".", ".", "1", "2", "+", "7", "8", "8">>,
    \* 1.2-RC-SNAPSHOT
    <<"1", ".", "2", "-", "R", "C", "-", "S", "N", "A", "P", "S", "H", "O", "T">>,
    \* -1.0.3-gamma+b7718
    <<"-", "1", ".", "0", ".", "3", "-", "g", "a", "m", "m", "a", "+", "b", "7", "7", "1",
      "8">>,
    \* +justmeta
    <<"+", "j", "u", "s", "t", "m", "e", "t", "a">>,
    \* 9.8.7+meta+meta
    <<"9", ".", "8", ".", "7", "+", "m", "e", "t", "a", "+", "m", "e", "t", "a">>,
    \* 9.8.7-whatever+meta+meta
    <<"9", ".", "8", ".", "7", "-", "w", "h", "a", "t", "e", "v", "e", "r", "+", "m", "e",
      "t", "a", "+", "m", "e", "t", "a">>,
    \* 99999999999999999999999.999999999999999999.99999999999999999----RC-SNAPSHOT.12.09.1--------------------------------..12
    <<"9", "9", "9", "9", "9", "9", "9", "9", "9", "9", "9", "9", "9", "9", "9", "9", "9",
      "9", "9", "9", "9", "9", "9", ".", "9", "9", "9", "9", "9", "9", "9", "9", "9", "9",
      "9", "9", "9", "9", "9", "9", "9", "9", ".", "9", "9", "9", "9", "9", "9", "9", "9",
      "9", "9", "9", "9", "9", "9", "9", "9", "9", "-", "-", "-", "-", "R", "C", "-", "S",
      "N", "A", "P", "S", "H", "O", "T", ".", "1", "2", ".", "0", "9", ".", "1", "-", "-",
      "-", "-", "-", "-", "-", "-", "-", "-", "-", "-", "-", "-", "-", "-", "-", "-", "-",
      "-", "-", "-", "-", "-", "-", "-", "-", "-", "-", "-", "-", "-", ".", ".", "1", "2">>
  >>

\* const PRECEDENCE_STRINGS of the tests, in ascending precedence.
PRECEDENCE_STRINGS ==
  <<
    \* 1.0.0-alpha
    <<"1", ".", "0", ".", "0", "-", "a", "l", "p", "h", "a">>,
    \* 1.0.0-alpha.1
    <<"1", ".", "0", ".", "0", "-", "a", "l", "p", "h", "a", ".", "1">>,
    \* 1.0.0-alpha.beta
    <<"1", ".", "0", ".", "0", "-", "a", "l", "p", "h", "a", ".", "b", "e", "t", "a">>,
    \* 1.0.0-beta
    <<"1", ".", "0", ".", "0", "-", "b", "e", "t", "a">>,
    \* 1.0.0-beta.2
    <<"1", ".", "0", ".", "0", "-", "b", "e", "t", "a", ".", "2">>,
    \* 1.0.0-beta.11
    <<"1", ".", "0", ".", "0", "-", "b", "e", "t", "a", ".", "1", "1">>,
    \* 1.0.0-rc.1
    <<"1", ".", "0", ".", "0", "-", "r", "c", ".", "1">>,
    \* 1.0.0
    <<"1", ".", "0", ".", "0">>
  >>


\* The decimal text of u128::MAX and of u128::MAX + 1 = 2^128.
U128MaxText == FormatU128(U128Max)

TwoTo128Text == SubSeq(U128MaxText, 1, Len(U128MaxText) - 1) \o <<"6">>

\* 39 nines (above 2^128) and 10^39 (40 digits).
Nines39 == [i \in 1..39 |-> "9"]

TenTo39 == <<"1">> \o [i \in 1..39 |-> "0"]

\* The longest generated tail.
MaxTail == 3

TailAlphabet == {"0", "1", "a", "-", "+", ".", "_", ArabicThree}

Tails == UNION {[1..n -> TailAlphabet] : n \in 0..MaxTail}

\* What the generated tails are appended to: nothing, a complete triple, a
\* triple short of a field, a leading zero, a started pre-release, a started
\* build metadata, and numeric fields at and just above u128::MAX.
Heads ==
  { <<>>,
    <<"1", ".", "0", ".", "0">>,
    <<"1", ".", "0">>,
    <<"0", "1", ".", "0", ".", "0">>,
    <<"1", ".", "0", ".", "0", "-", "a">>,
    <<"1", ".", "0", ".", "0", "+", "0">>,
    <<"0", ".", "0", ".">> \o U128MaxText,
    TwoTo128Text \o <<".", "1", ".", "0">>,
    <<"0", ".">> \o TwoTo128Text \o <<".", "1">> }

\* Whitespace before, inside and after a version.
WhitespaceTexts ==
  { <<" ", "1", ".", "0", ".", "0">>,
    <<"1", ".", "0", ".", "0", " ">>,
    <<"1", ".", "0", ".", "0", LF>>,
    <<"1", ".", "0", ".", "0", "-", "a", LF>>,
    <<"1", ".", "0", ".", "0", "-", "a", " ", "b">>,
    <<"1", ".", "0", ".", "0", "-", "a", "+", "b", LF>>,
    <<"1", ".", " ", "0", ".", "0">> }

ParseInputs ==
  Range(VALID_STRINGS) \cup Range(INVALID_STRINGS) \cup WhitespaceTexts
    \cup {h \o t : h \in Heads, t \in Tails}

\* Pre-release fields for the comparison: those of PRECEDENCE_STRINGS, an
\* upper-case identifier, identifiers that are not numbers but start like one,
\* and all-digit identifiers at and above u128::MAX.
OrdPreReleases ==
  { <<"a", "l", "p", "h", "a">>,
    <<"a", "l", "p", "h", "a", ".", "1">>,
    <<"a", "l", "p", "h", "a", ".", "b", "e", "t", "a">>,
    <<"b", "e", "t", "a">>,
    <<"b", "e", "t", "a", ".", "2">>,
    <<"b", "e", "t", "a", ".", "1", "1">>,
    <<"r", "c", ".", "1">>,
    <<"B", "e", "t", "a">>,
    <<"0">>,
    <<"-", "1">>,
    <<"1", ArabicThree>>,
    U128MaxText,
    TwoTo128Text,
    Nines39,
    TenTo39 }

OrdBuilds == { <<"b", "u", "i", "l", "d", ".", "1", "8", "4", "8">> }

WithPre(t, pres) == {t} \cup {t \o <<"-">> \o p : p \in pres}

WithBuild(ts, builds) == ts \cup {t \o <<"+">> \o b : t \in ts, b \in builds}

OrdInputs ==
  WithBuild(
    WithPre(<<"1", ".", "0", ".", "0">>, OrdPreReleases)
      \cup WithPre(<<"1", ".", "0", ".", "1">>, {<<"a", "l", "p", "h", "a">>})
      \cup WithPre(<<"1", ".", "1", ".", "0">>, {<<"a", "l", "p", "h", "a">>})
      \cup WithPre(<<"2", ".", "0", ".", "0">>, {<<"a", "l", "p", "h", "a">>}),
    OrdBuilds)

------------------------------------------------------------------------------
(* The state machine: a caller that parses two texts, renders the first and
   compares the two versions. *)

TypeOK ==
  /\ text_a \in Seq(Chars)
  /\ text_b \in Seq(Chars)
  /\ ver_a = Null \/ ver_a.ok \in BOOLEAN
  /\ ver_b = Null \/ ver_b.ok \in BOOLEAN
  /\ shown = Null \/ shown \in Seq(Chars)
  /\ call = Null \/ call.op \in {"eq", "ge", "gt", "le", "lt", "partial_cmp", "cmp", "max"}

Unset ==
  /\ ver_a = Null
  /\ ver_b = Null
  /\ shown = Null
  /\ call = Null

\* Parsing: any text against a fixed second version.
InitParse ==
  /\ text_a \in ParseInputs
  /\ text_b = <<"1", ".", "0", ".", "0">>
  /\ Unset

\* Ordering: two texts of the comparison pool.
InitOrd ==
  /\ text_a \in OrdInputs
  /\ text_b \in OrdInputs
  /\ Unset

Init == InitParse \/ InitOrd

\* text_a.parse::<SemVer>()
ParseA ==
  /\ ver_a' = FromStr(text_a)
  /\ UNCHANGED <<text_a, text_b, ver_b, shown, call>>

\* text_b.parse::<SemVer>()
ParseB ==
  /\ ver_b' = FromStr(text_b)
  /\ UNCHANGED <<text_a, text_b, ver_a, shown, call>>

\* a.to_string(), through Display::fmt.
CallToString ==
  /\ ver_a # Null /\ ver_a.ok
  /\ shown' = Fmt(ver_a.val)
  /\ UNCHANGED <<text_a, text_b, ver_a, ver_b, call>>

BothParsed == ver_a # Null /\ ver_b # Null /\ ver_a.ok /\ ver_b.ok

Called(op, ret) ==
  /\ call' = [op |-> op, lhs |-> ver_a.val, rhs |-> ver_b.val, ret |-> ret]
  /\ UNCHANGED <<text_a, text_b, ver_a, ver_b, shown>>

\* a == b
CallEq == BothParsed /\ Called("eq", Eq(ver_a.val, ver_b.val))

\* a >= b
CallGe == BothParsed /\ Called("ge", Ge(ver_a.val, ver_b.val))

\* a > b
CallGt == BothParsed /\ Called("gt", Gt(ver_a.val, ver_b.val))

\* a <= b
CallLe == BothParsed /\ Called("le", Le(ver_a.val, ver_b.val))

\* a < b
CallLt == BothParsed /\ Called("lt", Lt(ver_a.val, ver_b.val))

\* a.partial_cmp(&b)
CallPartialCmp == BothParsed /\ Called("partial_cmp", PartialCmp(ver_a.val, ver_b.val))

\* a.cmp(&b)
CallCmp == BothParsed /\ Called("cmp", Cmp(ver_a.val, ver_b.val))

\* std::cmp::max(a, b), as either release of the standard library computes it.
CallMax ==
  /\ BothParsed
  /\ \E ret \in {MaxByCmp(ver_a.val, ver_b.val), MaxByLt(ver_a.val, ver_b.val)} :
       Called("max", ret)

Next ==
  \/ ParseA
  \/ ParseB
  \/ CallToString
  \/ CallEq
  \/ CallGe
  \/ CallGt
  \/ CallLe
  \/ CallLt
  \/ CallPartialCmp
  \/ CallCmp
  \/ CallMax

Spec == Init /\ [][Next]_vars

SpecParse == InitParse /\ [][Next]_vars

SpecOrd == InitOrd /\ [][Next]_vars

------------------------------------------------------------------------------
(* The grammar and the precedence order of the specification, for reference *)

\* numeric := "0" | [1-9][0-9]*
GrammarNumeric(t) ==
  /\ Len(t) >= 1
  /\ \A i \in 1..Len(t) : IsAsciiDigit(t[i])
  /\ (Len(t) > 1 => t[1] # "0")

\* bId := [0-9A-Za-z-]+
GrammarBuildId(t) == Len(t) >= 1 /\ \A i \in 1..Len(t) : IsIdChar(t[i])

\* preId: a numeric identifier, or an identifier with at least one non-digit.
GrammarPreId(t) ==
  \/ GrammarNumeric(t)
  \/ GrammarBuildId(t) /\ \E i \in 1..Len(t) : ~IsAsciiDigit(t[i])

\* The index of the first c in s, or Len(s) + 1.
FirstIndex(s, c) ==
  IF \E i \in 1..Len(s) : s[i] = c
    THEN CHOOSE i \in 1..Len(s) : s[i] = c /\ \A j \in 1..(i - 1) : s[j] # c
    ELSE Len(s) + 1

\* version := numeric "." numeric "." numeric ( "-" preRelease )? ( "+" buildMeta )?
\* The first '+' starts the build metadata; before it, the first '-' starts the
\* pre-release; what is left is the triple.
Conforms(s) ==
  LET plus == FirstIndex(s, "+")
      main == SubSeq(s, 1, plus - 1)
      dash == FirstIndex(main, "-")
      core == Split(SubSeq(main, 1, dash - 1))
      pre  == Split(SubSeq(main, dash + 1, Len(main)))
      meta == Split(SubSeq(s, plus + 1, Len(s)))
  IN  /\ Len(core) = 3
      /\ \A i \in 1..3 : GrammarNumeric(core[i])
      /\ dash <= Len(main) => \A i \in DOMAIN pre : GrammarPreId(pre[i])
      /\ plus <= Len(s) => \A i \in DOMAIN meta : GrammarBuildId(meta[i])

\* The characters of the grammar: [0-9A-Za-z.+-].
InGrammarAlphabet(c) == IsIdChar(c) \/ c = "." \/ c = "+"

Inverse(o) == IF o = "Less" THEN "Greater" ELSE IF o = "Greater" THEN "Less" ELSE "Equal"

IntCmp(i, j) == IF i = j THEN "Equal" ELSE IF i < j THEN "Less" ELSE "Greater"

AllDigits(t) == Len(t) >= 1 /\ \A i \in 1..Len(t) : IsAsciiDigit(t[i])

\* The value of an all-digit identifier, of any magnitude.
DigitsValue(t) == StripZeros([i \in 1..Len(t) |-> CodePoint(t[i]) - 48])

NumericOrder(x, y) ==
  IF DigitsValue(x) = DigitsValue(y) THEN "Equal"
  ELSE IF NumLess(DigitsValue(x), DigitsValue(y)) THEN "Less"
  ELSE "Greater"

\* Two identifiers: numerically when both are all digits, in ASCII byte order
\* when neither is, and an all-digit identifier below any other.
IdentifierOrder(x, y) ==
  IF x = y THEN "Equal"
  ELSE IF AllDigits(x) /\ AllDigits(y) THEN NumericOrder(x, y)
  ELSE IF AllDigits(x) THEN "Less"
  ELSE IF AllDigits(y) THEN "Greater"
  ELSE IF SeqLess(Bytes(x), Bytes(y)) THEN "Less"
  ELSE "Greater"

\* The first index at which two identifier lists differ, or 0 when one is a
\* prefix of the other.
FirstDifference(A, B) ==
  LET D == {i \in 1..Min2(Len(A), Len(B)) : A[i] # B[i]}
  IN  IF D = {} THEN 0 ELSE CHOOSE i \in D : \A j \in D : i <= j

\* Two identifier lists: the first differing pair decides, else the shorter is less.
PreReleaseOrder(A, B) ==
  IF FirstDifference(A, B) # 0
    THEN IdentifierOrder(A[FirstDifference(A, B)], B[FirstDifference(A, B)])
  ELSE IntCmp(Len(A), Len(B))

SameTriple(a, b) == a.major = b.major /\ a.minor = b.minor /\ a.patch = b.patch

\* The order of the numeric triples: the first non-equal field decides.
TripleOrder(a, b) ==
  IF a.major # b.major THEN CmpU128(a.major, b.major)
  ELSE IF a.minor # b.minor THEN CmpU128(a.minor, b.minor)
  ELSE CmpU128(a.patch, b.patch)

\* Precedence: the triple, then "no pre-release is greater", then the lists.
Precedence(a, b) ==
  IF ~SameTriple(a, b) THEN TripleOrder(a, b)
  ELSE IF ~a.pre_release.some /\ ~b.pre_release.some THEN "Equal"
  ELSE IF ~a.pre_release.some THEN "Greater"
  ELSE IF ~b.pre_release.some THEN "Less"
  ELSE PreReleaseOrder(Split(a.pre_release.val), Split(b.pre_release.val))

\* Every all-digit identifier of the pre-release (if any) is below 2^128.
NumericIdsBelowTwoTo128(v) ==
  v.pre_release.some =>
    \A i \in DOMAIN Split(v.pre_release.val) :
      AllDigits(Split(v.pre_release.val)[i]) =>
        ~NumLess(U128Max, DigitsValue(Split(v.pre_release.val)[i]))

IsCall(op) == call # Null /\ call.op = op

------------------------------------------------------------------------------
(* Claims *)

\* C1: rendering a parsed version gives back the parsed text, character for
\* character, whatever pre_release and build_meta are present and however many
\* digits the numeric fields have.
C1_RoundTrip == shown # Null => shown = text_a

\* C1 witness: a text with both a pre-release and build metadata has been
\* parsed and rendered.
C1_Witness ==
  /\ shown # Null
  /\ ver_a.val.pre_release.some
  /\ ver_a.val.build_meta.some
  /\ Len(ver_a.val.pre_release.val) > 1

\* C2: parse returns an error when and only when the text does not conform to
\* the grammar.
C2_ErrorIffNotConforming == ver_a # Null => (ver_a.ok <=> Conforms(text_a))

\* C7: a text with a character outside [0-9A-Za-z.+-] is rejected, so no parsed
\* version has such a character in pre_release or build_meta.
C7_RejectsOutsideAlphabet ==
  ver_a # Null =>
    /\ (\E i \in 1..Len(text_a) : ~InGrammarAlphabet(text_a[i])) => ~ver_a.ok
    /\ ver_a.ok =>
         /\ ver_a.val.pre_release.some =>
              \A i \in 1..Len(ver_a.val.pre_release.val) :
                InGrammarAlphabet(ver_a.val.pre_release.val[i])
         /\ ver_a.val.build_meta.some =>
              \A i \in 1..Len(ver_a.val.build_meta.val) :
                InGrammarAlphabet(ver_a.val.build_meta.val[i])

\* C3: partial_cmp(a, b) is the inverse of partial_cmp(b, a).
C3_Antisymmetry ==
  IsCall("partial_cmp") => call.ret = Inverse(PartialCmp(call.rhs, call.lhs))

\* C4: when the numeric triples differ, partial_cmp is decided by the first
\* non-equal field among major, minor, patch, whatever the later fields and the
\* pre-releases.
C4_TripleLexicographic ==
  IsCall("partial_cmp") /\ ~SameTriple(call.lhs, call.rhs) =>
    call.ret = TripleOrder(call.lhs, call.rhs)

\* C5: partial_cmp is unchanged when the build_meta of either version is
\* replaced or removed; versions that differ only in build_meta compare Equal.
C5_BuildMetaIgnored ==
  IsCall("partial_cmp") =>
    /\ \A m1, m2 \in {None} \cup {Some(b) : b \in OrdBuilds} :
         call.ret = PartialCmp([call.lhs EXCEPT !.build_meta = m1],
                               [call.rhs EXCEPT !.build_meta = m2])
    /\ (SameTriple(call.lhs, call.rhs)
          /\ call.lhs.pre_release = call.rhs.pre_release) => call.ret = "Equal"

\* C6: on equal triples and non-identical pre_release fields (all-digit
\* identifiers below 2^128), partial_cmp is the pre-release precedence: no
\* pre-release is Greater; else the first differing identifiers decide
\* (numerically, in ASCII order, or all-digit below alphanumeric); else the
\* shorter list is Less.  The precedence list of the tests is strictly ascending
\* in both argument orders.
C6_PreReleasePrecedence ==
  IsCall("partial_cmp") =>
    /\ ( /\ SameTriple(call.lhs, call.rhs)
         /\ call.lhs.pre_release # call.rhs.pre_release
         /\ NumericIdsBelowTwoTo128(call.lhs)
         /\ NumericIdsBelowTwoTo128(call.rhs) )
       => call.ret = Precedence(call.lhs, call.rhs)
    /\ \A i, j \in DOMAIN PRECEDENCE_STRINGS :
         (i # j /\ text_a = PRECEDENCE_STRINGS[i] /\ text_b = PRECEDENCE_STRINGS[j])
           => call.ret = IntCmp(i, j)

\* C6 witness: 1.0.0-beta.11 has been compared with 1.0.0-beta.2, whose second
\* identifiers differ as numbers the other way than as strings, and came out Greater.
C6_Witness ==
  /\ IsCall("partial_cmp")
  /\ text_a = PRECEDENCE_STRINGS[6]
  /\ text_b = PRECEDENCE_STRINGS[5]
  /\ call.ret = "Greater"

\* C8: Ord::cmp, which max, min and sort use, equals partial_cmp, and max(a, b)
\* is the version of higher precedence.
C8_CmpIsPrecedence ==
  /\ IsCall("cmp") => call.ret = PartialCmp(call.lhs, call.rhs)
  /\ IsCall("max") =>
       /\ Precedence(call.ret, call.lhs) # "Less"
       /\ Precedence(call.ret, call.rhs) # "Less"

\* C9: a < b iff partial_cmp(a, b) is Less, a <= b iff it is Less or Equal,
\* a > b iff it is Greater, a >= b iff it is Greater or Equal.
C9_OperatorsAgree ==
  /\ IsCall("lt") => (call.ret <=> PartialCmp(call.lhs, call.rhs) = "Less")
  /\ IsCall("le") => (call.ret <=> PartialCmp(call.lhs, call.rhs) \in {"Less", "Equal"})
  /\ IsCall("gt") => (call.ret <=> PartialCmp(call.lhs, call.rhs) = "Greater")
  /\ IsCall("ge") => (call.ret <=> PartialCmp(call.lhs, call.rhs) \in {"Greater", "Equal"})

\* C10: on equal triples, when the pre-release lists first differ at two
\* all-digit identifiers, partial_cmp is their numeric order, whatever their
\* magnitude (also at and above 2^128).
C10_NumericAnyMagnitude ==
  ( /\ IsCall("partial_cmp")
    /\ SameTriple(call.lhs, call.rhs)
    /\ call.lhs.pre_release.some
    /\ call.rhs.pre_release.some )
  => LET A == Split(call.lhs.pre_release.val)
         B == Split(call.rhs.pre_release.val)
         d == FirstDifference(A, B)
     IN  (d # 0 /\ AllDigits(A[d]) /\ AllDigits(B[d]))
           => call.ret = NumericOrder(A[d], B[d])

====
